---- MODULE Spec2Model ----
(***************************************************************************)
(* Model of the recommendation engine and of the interaction operations    *)
(* that feed it (internal/service/recommendationService.go,                *)
(* internal/service/interactionService.go and the MongoDB repositories).   *)
(*                                                                         *)
(* The three interaction collections are bags of events keyed by           *)
(* (user, product); the catalog maps a product id to its document.         *)
(* budget is the number of further events the bounded store admits.        *)
(* fault is the collaborator call that fails during the request being      *)
(* answered: one bulk read of the interaction store, or the catalog.       *)
(* Scores are float64 in the program.  Here they are exact rationals kept  *)
(* as integer numerators: a similarity score s is kept as s * SimScale and *)
(* a recommendation score r as r * RecScale.                               *)
(***************************************************************************)
EXTENDS Integers, Sequences, FiniteSets

VARIABLES likes, views, purchases, products, resp, budget, fault, calls, query

vars == <<likes, views, purchases, products, resp, budget, fault, calls, query>>

\* ---------------------------------------------------------------- bounds
NumUsers == 3
NumProducts == 2
MaxEvents == 4
MaxQuantity == 1
InitStock == 2
\* The users of the crowded store and the writes made on it.
CrowdSize == 12
CrowdWrites == 2
\* The write requests in progress at the same time.
NumClients == 2
\* The writes made beside a recommendation request.
SnapshotWrites == 1

Users == 1..NumUsers
Clients == 1..NumClients
Products == 1..NumProducts
Quantities == 1..MaxQuantity
Limits == {-1, 0, 1, 10, 51}
\* The user the two queries are made for.  The writes are made by every user
\* and the service treats user ids alike, so the stores the queries run on
\* cover every role the other users can play.
Targets == {1}

\* ------------------------------------------------------ program constants
DefaultLimit == 10
MaxLimit == 50
NeighborLimit == 10
PurchaseWeight == 50
LikeWeight == 35
ViewWeight == 15
MinSimilarity == 10
PurchaseBoost == 6
LikeBoost == 3

\* ------------------------------------------------------------ arithmetic
RECURSIVE Gcd(_, _)
Gcd(a, b) == IF b = 0 THEN a ELSE Gcd(b, a % b)

RECURSIVE LcmUpTo(_)
LcmUpTo(n) == IF n <= 1 THEN 1 ELSE (LcmUpTo(n - 1) * n) \div Gcd(LcmUpTo(n - 1), n)

Denom == LcmUpTo(IF NumUsers > NumProducts THEN NumUsers ELSE NumProducts)
SimScale == 100 * Denom
RecScale == 2 * SimScale

\* ------------------------------------------------------------ the store
\* domain.UserProductView / UserProductLike / UserProductPurchase documents:
\* the number of stored events per key.
Pairs == Users \X Products
PurchaseKeys == Users \X Products \X Quantities

EmptyResp ==
    [op |-> "none", userID |-> 0, limit |-> 0, panicked |-> FALSE,
     similar |-> <<>>, UserID |-> 0, Algorithm |-> "", Recommendations |-> <<>>,
     err |-> <<>>]

\* A client without a request in progress, and a request that returned err:
\* the position of the request in its handler (pc), its arguments, the
\* product.Stock it read, whether its InsertOne succeeded, what it returned.
IdleCall ==
    [op |-> "idle", pc |-> "idle", userID |-> 0, productID |-> 0, quantity |-> 0,
     stock |-> 0, inserted |-> FALSE, result |-> ""]

\* No GetRecommendations request in progress.
IdleQuery ==
    [phase |-> "idle", userID |-> 0, limit |-> 0,
     allLikes |-> <<>>, allViews |-> <<>>, allPurchases |-> <<>>, sequential |-> {}]

\* "return nil, fmt.Errorf(...)": an error (the wrapped messages) and no result.
ErrorResponse(op, userID, limit, err) ==
    [op |-> op, userID |-> userID, limit |-> limit, panicked |-> FALSE,
     similar |-> <<>>, UserID |-> 0, Algorithm |-> "", Recommendations |-> <<>>,
     err |-> err]

\* The collaborator calls that can fail with an I/O error during a request:
\* a bulk read made by one of the three functions, or the catalog lookups
\* (the catalog is then unreachable for the whole request).
BulkReads == {"GetAllUserLikes", "GetAllUserViews", "GetAllUserPurchases"}
NoFault == [in |-> "none", call |-> "none"]
CatalogFault == [in |-> "any", call |-> "GetByID"]
SimilarFaults == {[in |-> "GetSimilarUsers", call |-> r] : r \in BulkReads}
ReadFaults ==
    {[in |-> "GetRecommendations", call |-> r] : r \in BulkReads}
        \cup SimilarFaults
        \cup {[in |-> "getPopularProducts", call |-> "GetAllUserLikes"]}
Faults == {NoFault, CatalogFault} \cup ReadFaults

\* The limits a query is made with: every limit while the collaborators
\* work, the default limit under a fault the operation can meet.
RequestLimits(faults) ==
    IF fault = NoFault THEN Limits
    ELSE IF fault \in faults THEN {DefaultLimit} ELSE {}

\* Mutation: a failed bulk read is taken for a successful one.
ReadErrorIgnored(caller) == <<>>

\* "if err != nil { return nil, fmt.Errorf("get all ...: %w", err) }" after
\* the bulk reads of caller: the error, or <<>> when the reads succeed.
ReadError(caller) ==
    IF fault.in # caller THEN <<>>
    ELSE IF fault.call = "GetAllUserLikes" THEN <<"get all likes">>
    ELSE IF fault.call = "GetAllUserViews" THEN <<"get all views">>
    ELSE <<"get all purchases">>

\* The number of events a collection holds under the keys S.
RECURSIVE SumOver(_, _)
SumOver(f, S) ==
    IF S = {} THEN 0
    ELSE LET x == CHOOSE y \in S : TRUE IN f[x] + SumOver(f, S \ {x})

\* productRepository.GetByID: the document, ErrNotFound, or the wrapped
\* driver error when the catalog cannot be reached.
GetByID(p) ==
    IF fault = CatalogFault THEN "get product by id"
    ELSE IF products[p].exists THEN "ok" ELSE "ErrNotFound"

\* The user ids the documents of the store carry.
StoreUsers == {k[1] : k \in DOMAIN likes}

\* The product ids user u has an event for, per collection (the map[int]bool
\* sets the service builds from the bulk reads).
LikedProducts(u) == {p \in Products : likes[<<u, p>>] > 0}
ViewedProducts(u) == {p \in Products : views[<<u, p>>] > 0}
PurchaseEvents(u, p) == SumOver(purchases, {u} \X {p} \X Quantities)
PurchasedProducts(u) == {p \in Products : PurchaseEvents(u, p) > 0}

HasEvents(u) ==
    LikedProducts(u) # {} \/ ViewedProducts(u) # {} \/ PurchasedProducts(u) # {}

\* ------------------------------------------------------ GetSimilarUsers
\* allUserIDs: every user other than the target with at least one event.
AllUserIDs(userID) == {u \in StoreUsers \ {userID} : HasEvents(u)}

CommonPurchases(userID, o) == Cardinality(PurchasedProducts(userID) \cap PurchasedProducts(o))
CommonLikes(userID, o) == Cardinality(LikedProducts(userID) \cap LikedProducts(o))
\* Mutation: counts the other user's views without the membership test.
CommonViewsAll(userID, o) == Cardinality(ViewedProducts(o))

CommonViews(userID, o) == Cardinality(ViewedProducts(userID) \cap ViewedProducts(o))

\* Mutation: the union counts the common products twice.
UnionPurchasesNoCommon(userID, o) ==
    Cardinality(PurchasedProducts(userID)) + Cardinality(PurchasedProducts(o))

UnionPurchases(userID, o) ==
    Cardinality(PurchasedProducts(userID)) + Cardinality(PurchasedProducts(o))
        - CommonPurchases(userID, o)
\* Mutation: the union counts the common products twice.
UnionLikesNoCommon(userID, o) ==
    Cardinality(LikedProducts(userID)) + Cardinality(LikedProducts(o))

UnionLikes(userID, o) ==
    Cardinality(LikedProducts(userID)) + Cardinality(LikedProducts(o)) - CommonLikes(userID, o)
\* Mutation: the union is taken to be the target's own set.
UnionViewsTargetOnly(userID, o) == Cardinality(ViewedProducts(userID))

UnionViews(userID, o) ==
    Cardinality(ViewedProducts(userID)) + Cardinality(ViewedProducts(o)) - CommonViews(userID, o)

\* Mutation: the Dice coefficient 2|A n B| / (|A| + |B|) in place of Jaccard's.
JaccardDice(common, union) ==
    IF union > 0 THEN (2 * common * Denom) \div (union + common) ELSE 0

\* float64(common) / float64(union), 0.0 when the union is empty; times Denom.
Jaccard(common, union) == IF union > 0 THEN (common * Denom) \div union ELSE 0

PurchaseSimilarity(userID, o) == Jaccard(CommonPurchases(userID, o), UnionPurchases(userID, o))
LikeSimilarity(userID, o) == Jaccard(CommonLikes(userID, o), UnionLikes(userID, o))
ViewSimilarity(userID, o) == Jaccard(CommonViews(userID, o), UnionViews(userID, o))

\* Mutation: the three indices are added without their weights.
SimilarityUnweighted(userID, o) ==
    (PurchaseSimilarity(userID, o) + LikeSimilarity(userID, o) + ViewSimilarity(userID, o)) * 100

\* similarity := purchaseSimilarity*0.5 + likeSimilarity*0.35 + viewSimilarity*0.15
Similarity(userID, o) ==
    PurchaseSimilarity(userID, o) * PurchaseWeight
        + LikeSimilarity(userID, o) * LikeWeight
        + ViewSimilarity(userID, o) * ViewWeight

\* "Need at least one common interaction"
HasCommon(userID, o) ==
    ~(CommonLikes(userID, o) = 0 /\ CommonViews(userID, o) = 0
        /\ CommonPurchases(userID, o) = 0)

\* Mutation: only a zero similarity is dropped.
BelowThresholdZeroOnly(userID, o) == Similarity(userID, o) <= 0

\* "Apply minimum threshold": similarity < 0.1 is dropped.  The comparison
\* is made on the float64 sum: a sum whose exact value is 1/10 evaluates to
\* 0.1 when the purchase term is positive and to 0.09999999999999999 when it
\* is zero (e.g. view similarity 2/3 alone), for unions of up to 8 products.
BelowThreshold(userID, o) ==
    \/ Similarity(userID, o) < MinSimilarity * Denom
    \/ /\ Similarity(userID, o) = MinSimilarity * Denom
       /\ PurchaseSimilarity(userID, o) = 0

\* The entries appended to similarities, before the sort.
Similarities(userID) ==
    {[UserID |-> o, SimilarityScore |-> Similarity(userID, o),
      CommonLikes |-> CommonLikes(userID, o), CommonViews |-> CommonViews(userID, o)] :
        o \in {u \in AllUserIDs(userID) :
                 HasCommon(userID, u) /\ ~BelowThreshold(userID, u)}}

\* sort.Slice by a descending key over entries gathered in map order: any
\* arrangement of the entries in which the key never increases.
RECURSIVE SortedBy(_, _)
SortedBy(S, key) ==
    IF S = {} THEN {<<>>}
    ELSE UNION {{<<x>> \o s : s \in SortedBy(S \ {x}, key)} :
                  x \in {y \in S : \A z \in S : key[y] >= key[z]}}

\* if len(list) > limit { list = list[:limit] }; a negative limit makes the
\* slice expression panic.
Panics(list, limit) == Len(list) > limit /\ limit < 0
\* Mutation: the list is returned whole.
TruncateNever(list, limit) == list

Truncate(list, limit) ==
    IF Len(list) > limit THEN SubSeq(list, 1, limit) ELSE list

\* Mutation: the entries are sorted by ascending score.
BySimilarityScoreAscending(S) == [e \in S |-> 0 - e.SimilarityScore]

\* The sort key of GetSimilarUsers: similarities[i].SimilarityScore.
BySimilarityScore(S) == [e \in S |-> e.SimilarityScore]

\* Every list GetSimilarUsers(userID, limit) can return.
SimilarUsersResults(userID, limit) ==
    {Truncate(s, limit) : s \in SortedBy(Similarities(userID), BySimilarityScore(Similarities(userID)))}

\* Every outcome of the call GetSimilarUsers(userID, limit): the error of a
\* failed bulk read, the panic of similarities[:limit] for a negative limit,
\* or a list.
SimilarUsersResponses(userID, limit) ==
    IF ReadError("GetSimilarUsers") # <<>>
    THEN {ErrorResponse("GetSimilarUsers", userID, limit, ReadError("GetSimilarUsers"))}
    ELSE {[op |-> "GetSimilarUsers", userID |-> userID, limit |-> limit,
           panicked |-> Panics(s, limit),
           similar |-> IF Panics(s, limit) THEN <<>> ELSE Truncate(s, limit),
           UserID |-> 0, Algorithm |-> "", Recommendations |-> <<>>, err |-> <<>>] :
             s \in SortedBy(Similarities(userID), BySimilarityScore(Similarities(userID)))}

\* --------------------------------------------------- getPopularProducts
\* likeCounts[productID]: like events for the product over all users.
LikeCount(p) == SumOver(likes, StoreUsers \X {p})

ProductCounts ==
    {[productID |-> p, count |-> LikeCount(p)] : p \in {q \in Products : LikeCount(q) > 0}}

\* Mutation: the products are not ordered by their count.
ByCountUnordered(S) == [pc \in S |-> 0]

\* The sort key of getPopularProducts: productCounts[i].count.
ByCount(S) == [pc \in S |-> pc.count]
InCatalog(pc) == GetByID(pc.productID) = "ok"

\* maxCount := 1, or productCounts[0].count of the truncated list.
MaxCount(list) == IF Len(list) > 0 THEN list[1].count ELSE 1

\* float64(pc.count) / float64(maxCount)
PopularScore(count, maxCount) == (count * RecScale) \div maxCount

\* The loop over the truncated list: a product GetByID does not find is
\* skipped, the others are appended in order.
PopularItems(list) ==
    LET kept == SelectSeq(list, InCatalog)
    IN [i \in 1..Len(kept) |->
          [ProductID |-> kept[i].productID,
           Score |-> PopularScore(kept[i].count, MaxCount(list)),
           Reason |-> [text |-> "Popular choice", count |-> kept[i].count]]]

PopularResponse(userID, limit, list) ==
    [op |-> "GetRecommendations", userID |-> userID, limit |-> limit,
     panicked |-> FALSE, similar |-> <<>>, UserID |-> 0,
     Algorithm |-> "popularity_based", Recommendations |-> PopularItems(list),
     err |-> <<>>]

\* Every response getPopularProducts(lim) can build for the call (userID, limit).
PopularResults(userID, limit, lim) ==
    IF ReadError("getPopularProducts") # <<>>
    THEN {ErrorResponse("GetRecommendations", userID, limit, ReadError("getPopularProducts"))}
    ELSE {PopularResponse(userID, limit, Truncate(s, lim)) :
            s \in SortedBy(ProductCounts, ByCount(ProductCounts))}

\* --------------------------------------------------- GetRecommendations
\* if limit <= 0 || limit > 50 { limit = 10 }
ClampLimit(limit) == IF limit <= 0 \/ limit > MaxLimit THEN DefaultLimit ELSE limit

\* Mutation: the purchase pass does not skip what the target purchased.
ScoredPurchasesNoSkip(userID, o, p) ==
    IF GetByID(p) # "ok" THEN 0 ELSE PurchaseEvents(o, p)

\* Purchase pass: the purchase events of neighbor o on p that reach the "+=".
ScoredPurchases(userID, o, p) ==
    IF p \in PurchasedProducts(userID) THEN 0
    ELSE IF GetByID(p) # "ok" THEN 0
    ELSE PurchaseEvents(o, p)

\* Mutation: the like pass scores the neighbor's view events too.
ScoredLikesAndViews(userID, o, p) ==
    IF p \in LikedProducts(userID) \/ p \in PurchasedProducts(userID) THEN 0
    ELSE IF GetByID(p) # "ok" THEN 0
    ELSE likes[<<o, p>>] + views[<<o, p>>]

\* Mutation: the like pass scores a product the catalog no longer has.
ScoredLikesNoCatalogCheck(userID, o, p) ==
    IF p \in LikedProducts(userID) \/ p \in PurchasedProducts(userID) THEN 0
    ELSE likes[<<o, p>>]

\* Like pass: the like events of neighbor o on p that reach the "+=".
ScoredLikes(userID, o, p) ==
    IF p \in LikedProducts(userID) \/ p \in PurchasedProducts(userID) THEN 0
    ELSE IF GetByID(p) # "ok" THEN 0
    ELSE likes[<<o, p>>]

\* Mutation: a purchased product is scored once, whatever the number of events.
PurchaseContributionOnce(userID, e, p) ==
    (IF ScoredPurchases(userID, e.UserID, p) > 0 THEN 1 ELSE 0)
        * e.SimilarityScore * PurchaseBoost

\* productScores[p] += simUser.SimilarityScore * 3.0, once per scored event.
PurchaseContribution(userID, e, p) ==
    ScoredPurchases(userID, e.UserID, p) * e.SimilarityScore * PurchaseBoost

\* Mutation: a like adds 1.5 whatever the neighbor's similarity.
LikeContributionUnweighted(userID, e, p) ==
    ScoredLikes(userID, e.UserID, p) * SimScale * LikeBoost

\* productScores[p] += simUser.SimilarityScore * 1.5, once per scored event.
LikeContribution(userID, e, p) ==
    ScoredLikes(userID, e.UserID, p) * e.SimilarityScore * LikeBoost

RECURSIVE SumSeq(_, _)
SumSeq(f, n) == IF n = 0 THEN 0 ELSE f[n] + SumSeq(f, n - 1)

\* productScores[p] after both passes over similarUsers.
ProductScore(userID, similarUsers, p) ==
    SumSeq([i \in 1..Len(similarUsers) |->
              PurchaseContribution(userID, similarUsers[i], p)
                + LikeContribution(userID, similarUsers[i], p)],
           Len(similarUsers))

\* The keys of productScores: products some event added a score for.
ScoredProducts(userID, similarUsers) ==
    {p \in Products : \E i \in 1..Len(similarUsers) :
        ScoredPurchases(userID, similarUsers[i].UserID, p) > 0
            \/ ScoredLikes(userID, similarUsers[i].UserID, p) > 0}

\* "Convert to recommendation list", before the sort.
Candidates(userID, similarUsers) ==
    {[ProductID |-> p, Score |-> ProductScore(userID, similarUsers, p),
      Reason |-> [text |-> "Users with similar interests liked this", count |-> 0]] :
        p \in ScoredProducts(userID, similarUsers)}

\* The sort key of GetRecommendations: recommendations[i].Score.
ByScore(S) == [r \in S |-> r.Score]

CollaborativeResponse(userID, limit, list) ==
    [op |-> "GetRecommendations", userID |-> userID, limit |-> limit,
     panicked |-> FALSE, similar |-> <<>>, UserID |-> userID,
     Algorithm |-> "collaborative_filtering", Recommendations |-> list,
     err |-> <<>>]

\* Mutation: an empty recommendation list is returned as it is.
AggregateResultsNoFallback(userID, limit, lim, similarUsers) ==
    {CollaborativeResponse(userID, limit, Truncate(s, lim)) :
        s \in SortedBy(Candidates(userID, similarUsers),
                      ByScore(Candidates(userID, similarUsers)))}

\* The responses of the aggregation for one neighbor list; an empty
\* recommendation list falls back to getPopularProducts.
AggregateResults(userID, limit, lim, similarUsers) ==
    UNION {IF Len(Truncate(s, lim)) = 0
           THEN PopularResults(userID, limit, lim)
           ELSE {CollaborativeResponse(userID, limit, Truncate(s, lim))} :
             s \in SortedBy(Candidates(userID, similarUsers),
                           ByScore(Candidates(userID, similarUsers)))}

\* Mutation: the neighbor list is asked with the largest limit, not 10.
RecommendationResultsAllNeighbors(userID, limit) ==
    LET lim == ClampLimit(limit)
    IN IF ReadError("GetRecommendations") # <<>>
       THEN {ErrorResponse("GetRecommendations", userID, limit,
                           ReadError("GetRecommendations"))}
       ELSE IF ~HasEvents(userID)
       THEN PopularResults(userID, limit, lim)
       ELSE IF ReadError("GetSimilarUsers") # <<>>
       THEN {ErrorResponse("GetRecommendations", userID, limit,
                           <<"get similar users">> \o ReadError("GetSimilarUsers"))}
       ELSE UNION {IF Len(similarUsers) = 0
                   THEN PopularResults(userID, limit, lim)
                   ELSE AggregateResults(userID, limit, lim, similarUsers) :
                     similarUsers \in SimilarUsersResults(userID, MaxLimit)}

\* Every response GetRecommendations(userID, limit) can return.
RecommendationResults(userID, limit) ==
    LET lim == ClampLimit(limit)
    IN IF ReadError("GetRecommendations") # <<>>
       THEN {ErrorResponse("GetRecommendations", userID, limit,
                           ReadError("GetRecommendations"))}
       ELSE IF ~HasEvents(userID)
       THEN PopularResults(userID, limit, lim)
       ELSE IF ReadError("GetSimilarUsers") # <<>>
       THEN {ErrorResponse("GetRecommendations", userID, limit,
                           <<"get similar users">> \o ReadError("GetSimilarUsers"))}
       ELSE UNION {IF Len(similarUsers) = 0
                   THEN PopularResults(userID, limit, lim)
                   ELSE AggregateResults(userID, limit, lim, similarUsers) :
                     similarUsers \in SimilarUsersResults(userID, NeighborLimit)}

\* ------------------------------------------------------------- actions
Init ==
    /\ likes = [k \in Pairs |-> 0]
    /\ views = [k \in Pairs |-> 0]
    /\ purchases = [k \in PurchaseKeys |-> 0]
    /\ products = [p \in Products |-> [exists |-> TRUE, stock |-> InitStock]]
    /\ resp = EmptyResp
    /\ budget = MaxEvents
    /\ fault = NoFault
    /\ calls = [c \in Clients |-> IdleCall]
    /\ query = IdleQuery

\* interactionService.RecordProductView -> interactionRepository.RecordView
RecordProductView(userID, productID) ==
    /\ resp = EmptyResp /\ fault = NoFault
    /\ budget > 0
    /\ IF GetByID(productID) # "ok"
       THEN UNCHANGED <<views, budget>>
       ELSE /\ views' = [views EXCEPT ![<<userID, productID>>] = @ + 1]
            /\ budget' = budget - 1
    /\ UNCHANGED <<likes, purchases, products, resp, fault, calls, query>>

\* interactionService.LikeProduct -> interactionRepository.RecordLike
LikeProduct(userID, productID) ==
    /\ resp = EmptyResp /\ fault = NoFault
    /\ budget > 0
    /\ IF GetByID(productID) # "ok"
       THEN UNCHANGED <<likes, budget>>
       ELSE IF likes[<<userID, productID>>] > 0
            THEN UNCHANGED <<likes, budget>>
            ELSE /\ likes' = [likes EXCEPT ![<<userID, productID>>] = @ + 1]
                 /\ budget' = budget - 1
    /\ UNCHANGED <<views, purchases, products, resp, fault, calls, query>>

\* interactionService.UnlikeProduct -> interactionRepository.RemoveLike
UnlikeProduct(userID, productID) ==
    /\ resp = EmptyResp /\ fault = NoFault
    /\ IF likes[<<userID, productID>>] = 0
       THEN UNCHANGED <<likes, budget>>
       ELSE /\ likes' = [likes EXCEPT ![<<userID, productID>>] = @ - 1]
            /\ budget' = budget + 1
    /\ UNCHANGED <<views, purchases, products, resp, fault, calls, query>>

\* interactionService.PurchaseProduct
PurchaseProduct(userID, productID, quantity) ==
    /\ resp = EmptyResp /\ fault = NoFault
    /\ budget > 0
    /\ IF quantity <= 0 \/ GetByID(productID) # "ok" \/ products[productID].stock < quantity
       THEN UNCHANGED <<purchases, products, budget>>
       ELSE /\ purchases' = [purchases EXCEPT ![<<userID, productID, quantity>>] = @ + 1]
            /\ products' = [products EXCEPT ![productID].stock = @ - quantity]
            /\ budget' = budget - 1
    /\ UNCHANGED <<likes, views, resp, fault, calls, query>>

\* productService.DeleteProduct -> productRepository.Delete
DeleteProduct(productID) ==
    /\ resp = EmptyResp /\ fault = NoFault
    /\ IF GetByID(productID) # "ok"
       THEN UNCHANGED products
       ELSE products' = [products EXCEPT ![productID] = [exists |-> FALSE, stock |-> 0]]
    /\ UNCHANGED <<likes, views, purchases, resp, budget, fault, calls, query>>

\* recommendationService.GetSimilarUsers
GetSimilarUsers(userID, limit) ==
    /\ resp = EmptyResp
    /\ limit \in RequestLimits(SimilarFaults)
    /\ resp' \in SimilarUsersResponses(userID, limit)
    /\ UNCHANGED <<likes, views, purchases, products, budget, fault, calls, query>>

\* Mutation: the call records a view of the first product for the user.
GetRecommendationsRecordingView(userID, limit) ==
    /\ resp = EmptyResp
    /\ limit \in RequestLimits(Faults)
    /\ resp' \in RecommendationResults(userID, limit)
    /\ views' = [views EXCEPT ![<<userID, 1>>] = @ + 1]
    /\ UNCHANGED <<likes, purchases, products, budget, fault, calls, query>>

\* recommendationService.GetRecommendations
GetRecommendations(userID, limit) ==
    /\ resp = EmptyResp
    /\ limit \in RequestLimits(Faults)
    /\ resp' \in RecommendationResults(userID, limit)
    /\ UNCHANGED <<likes, views, purchases, products, budget, fault, calls, query>>

\* A collaborator call starts to fail (MongoDB unreachable, cursor error) for
\* the next query; the writes are made while the collaborators work.
Fail(f) ==
    /\ resp = EmptyResp
    /\ fault = NoFault
    /\ fault' = f
    /\ UNCHANGED <<likes, views, purchases, products, resp, budget, calls, query>>

\* Handler.GetSimilarUsers / Handler.GetRecommendations: c.JSON writes the
\* response and the request ends.
Respond ==
    /\ resp # EmptyResp
    /\ resp' = EmptyResp
    /\ fault' = NoFault
    /\ UNCHANGED <<likes, views, purchases, products, budget, calls, query>>

Next ==
    \/ \E u \in Users, p \in Products : RecordProductView(u, p)
    \/ \E u \in Users, p \in Products : LikeProduct(u, p)
    \/ \E u \in Users, p \in Products : UnlikeProduct(u, p)
    \/ \E u \in Users, p \in Products, q \in 0..MaxQuantity : PurchaseProduct(u, p, q)
    \/ \E p \in Products : DeleteProduct(p)
    \/ \E u \in Targets, l \in Limits : GetSimilarUsers(u, l)
    \/ \E u \in Targets, l \in Limits : GetRecommendations(u, l)
    \/ \E f \in Faults \ {NoFault} : Fail(f)
    \/ Respond

Spec == Init /\ [][Next]_vars

\* The store after users 1 and 2 have each viewed product 1: the state
\* RecordProductView(1, 1) and RecordProductView(2, 1) lead to from Init.
InitShared ==
    /\ likes = [k \in Pairs |-> 0]
    /\ views = [k \in Pairs |-> IF k \in {<<1, 1>>, <<2, 1>>} THEN 1 ELSE 0]
    /\ purchases = [k \in PurchaseKeys |-> 0]
    /\ products = [p \in Products |-> [exists |-> TRUE, stock |-> InitStock]]
    /\ resp = EmptyResp
    /\ budget = MaxEvents
    /\ fault = NoFault
    /\ calls = [c \in Clients |-> IdleCall]
    /\ query = IdleQuery

SpecShared == InitShared /\ [][Next]_vars

\* A store with more qualifying neighbors than GetSimilarUsers is asked for.
\* Every user likes product 1; the users 2..CrowdSize-1 have purchased it and
\* have viewed product 1, both products or nothing, by turns; the last user
\* likes and has purchased product 2 as well, which nobody else has; the
\* target has viewed product 1.
CrowdUsers == 1..CrowdSize
CrowdBuyers == 2..(CrowdSize - 1)
InitCrowd ==
    /\ likes = [k \in CrowdUsers \X Products |->
                  IF k[2] = 1 \/ k = <<CrowdSize, 2>> THEN 1 ELSE 0]
    /\ views = [k \in CrowdUsers \X Products |->
                  IF k = <<1, 1>> THEN 1
                  ELSE IF k[1] \in CrowdBuyers /\ k[1] % 3 = 2 /\ k[2] = 1 THEN 1
                  ELSE IF k[1] \in CrowdBuyers /\ k[1] % 3 = 0 THEN 1
                  ELSE 0]
    /\ purchases = [k \in CrowdUsers \X Products \X Quantities |->
                      IF k[1] \in CrowdBuyers /\ k[2] = 1 /\ k[3] = 1 THEN 1
                      ELSE IF k = <<CrowdSize, 2, 1>> THEN 1
                      ELSE 0]
    /\ products = [p \in Products |-> [exists |-> TRUE, stock |-> InitStock]]
    /\ resp = EmptyResp
    /\ budget = CrowdWrites
    /\ fault = NoFault
    /\ calls = [c \in Clients |-> IdleCall]
    /\ query = IdleQuery

NextCrowd ==
    \/ \E u \in Users, p \in Products : RecordProductView(u, p)
    \/ \E u \in Users, p \in Products : LikeProduct(u, p)
    \/ \E u \in Targets, l \in Limits : GetRecommendations(u, l)
    \/ Respond

SpecCrowd == InitCrowd /\ [][NextCrowd]_vars

\* ------------------------------------------- write requests, step by step
\* The write handlers run as one goroutine per HTTP request; each repository
\* call is one MongoDB operation, and the requests of different clients
\* interleave between the operations.
Returned(call, result) == [call EXCEPT !.pc = "done", !.result = result]

\* POST /products/:id/purchase reaches interactionService.PurchaseProduct:
\* "if quantity <= 0" returns before any collaborator is called.
StartPurchase(c, userID, productID, quantity) ==
    /\ calls[c].op = "idle"
    /\ budget > 0
    /\ budget' = budget - 1
    /\ calls' = [calls EXCEPT ![c] =
         LET call == [op |-> "PurchaseProduct", pc |-> "GetByID", userID |-> userID,
                      productID |-> productID, quantity |-> quantity,
                      stock |-> 0, inserted |-> FALSE, result |-> ""]
         IN IF quantity <= 0
            THEN Returned(call, "quantity must be greater than 0")
            ELSE call]
    /\ UNCHANGED <<likes, views, purchases, products, resp, fault, query>>

\* product, err := s.productRepo.GetByID(...), then the stock test on the
\* document that was read.
PurchaseGetByID(c) ==
    /\ calls[c].op = "PurchaseProduct" /\ calls[c].pc = "GetByID"
    /\ calls' = [calls EXCEPT ![c] =
         IF GetByID(calls[c].productID) # "ok"
         THEN Returned(calls[c], "product not found")
         ELSE IF products[calls[c].productID].stock < calls[c].quantity
         THEN Returned([calls[c] EXCEPT !.stock = products[calls[c].productID].stock],
                       "insufficient stock")
         ELSE [calls[c] EXCEPT !.pc = "RecordPurchase",
                               !.stock = products[calls[c].productID].stock]]
    /\ UNCHANGED <<likes, views, purchases, products, resp, budget, fault, query>>

\* s.interactionRepo.RecordPurchase(...): InsertOne succeeds.
PurchaseRecord(c) ==
    /\ calls[c].op = "PurchaseProduct" /\ calls[c].pc = "RecordPurchase"
    /\ purchases' = [purchases EXCEPT
         ![<<calls[c].userID, calls[c].productID, calls[c].quantity>>] = @ + 1]
    /\ calls' = [calls EXCEPT ![c].pc = "Update", ![c].inserted = TRUE]
    /\ UNCHANGED <<likes, views, products, resp, budget, fault, query>>

\* s.interactionRepo.RecordPurchase(...): InsertOne fails.
PurchaseRecordFails(c) ==
    /\ calls[c].op = "PurchaseProduct" /\ calls[c].pc = "RecordPurchase"
    /\ calls' = [calls EXCEPT ![c] = Returned(calls[c], "record purchase")]
    /\ UNCHANGED <<likes, views, purchases, products, resp, budget, fault, query>>

\* product.Stock -= quantity; s.productRepo.Update(ctx, product): UpdateOne
\* sets the stock field to the value computed from the document read before.
PurchaseUpdate(c) ==
    /\ calls[c].op = "PurchaseProduct" /\ calls[c].pc = "Update"
    /\ IF products[calls[c].productID].exists
       THEN /\ products' = [products EXCEPT
                 ![calls[c].productID].stock = calls[c].stock - calls[c].quantity]
            /\ calls' = [calls EXCEPT ![c] = Returned(calls[c], "ok")]
       ELSE /\ UNCHANGED products
            /\ calls' = [calls EXCEPT ![c] = Returned(calls[c], "update product stock")]
    /\ UNCHANGED <<likes, views, purchases, resp, budget, fault, query>>

\* s.productRepo.Update(ctx, product): UpdateOne fails.
PurchaseUpdateFails(c) ==
    /\ calls[c].op = "PurchaseProduct" /\ calls[c].pc = "Update"
    /\ calls' = [calls EXCEPT ![c] = Returned(calls[c], "update product stock")]
    /\ UNCHANGED <<likes, views, purchases, products, resp, budget, fault, query>>

\* POST /products/:id/like reaches interactionService.LikeProduct.
StartLike(c, userID, productID) ==
    /\ calls[c].op = "idle"
    /\ budget > 0
    /\ budget' = budget - 1
    /\ calls' = [calls EXCEPT ![c] =
         [op |-> "LikeProduct", pc |-> "GetByID", userID |-> userID,
          productID |-> productID, quantity |-> 0,
          stock |-> 0, inserted |-> FALSE, result |-> ""]]
    /\ UNCHANGED <<likes, views, purchases, products, resp, fault, query>>

\* _, err := s.productRepo.GetByID(ctx, productID)
LikeGetByID(c) ==
    /\ calls[c].op = "LikeProduct" /\ calls[c].pc = "GetByID"
    /\ calls' = [calls EXCEPT ![c] =
         IF GetByID(calls[c].productID) # "ok"
         THEN Returned(calls[c], "product not found")
         ELSE [calls[c] EXCEPT !.pc = "CountDocuments"]]
    /\ UNCHANGED <<likes, views, purchases, products, resp, budget, fault, query>>

\* RecordLike: count, err := collection.CountDocuments(...);
\* "if count > 0 { return nil }".
LikeCountDocuments(c) ==
    /\ calls[c].op = "LikeProduct" /\ calls[c].pc = "CountDocuments"
    /\ calls' = [calls EXCEPT ![c] =
         IF likes[<<calls[c].userID, calls[c].productID>>] > 0
         THEN Returned(calls[c], "ok")
         ELSE [calls[c] EXCEPT !.pc = "InsertOne"]]
    /\ UNCHANGED <<likes, views, purchases, products, resp, budget, fault, query>>

\* RecordLike: collection.InsertOne(ctx, like).  The unique index on
\* (user_id, product_id) rejects a second document for the pair with a
\* duplicate key error, which RecordLike and LikeProduct wrap and return.
LikeInsertOne(c) ==
    /\ calls[c].op = "LikeProduct" /\ calls[c].pc = "InsertOne"
    /\ IF likes[<<calls[c].userID, calls[c].productID>>] > 0
       THEN /\ UNCHANGED likes
            /\ calls' = [calls EXCEPT ![c] = Returned(calls[c], "record like")]
       ELSE /\ likes' = [likes EXCEPT ![<<calls[c].userID, calls[c].productID>>] = @ + 1]
            /\ calls' = [calls EXCEPT ![c] =
                 Returned([calls[c] EXCEPT !.inserted = TRUE], "ok")]
    /\ UNCHANGED <<views, purchases, products, resp, budget, fault, query>>

\* The handler writes the status of the request and the goroutine ends.
Return(c) ==
    /\ calls[c].pc = "done"
    /\ calls' = [calls EXCEPT ![c] = IdleCall]
    /\ UNCHANGED <<likes, views, purchases, products, resp, budget, fault, query>>

\* Purchase requests of several clients, every collaborator call succeeding.
NextPurchases ==
    \/ \E c \in Clients, u \in Users, p \in Products, q \in 0..MaxQuantity :
          StartPurchase(c, u, p, q)
    \/ \E c \in Clients : PurchaseGetByID(c)
    \/ \E c \in Clients : PurchaseRecord(c)
    \/ \E c \in Clients : PurchaseUpdate(c)
    \/ \E c \in Clients : Return(c)

SpecPurchases == Init /\ [][NextPurchases]_vars

\* Purchase requests whose InsertOne or UpdateOne may fail.
NextPurchaseFaults ==
    \/ NextPurchases
    \/ \E c \in Clients : PurchaseRecordFails(c)
    \/ \E c \in Clients : PurchaseUpdateFails(c)

SpecPurchaseFaults == Init /\ [][NextPurchaseFaults]_vars

\* Like and unlike requests of several clients.
NextLikes ==
    \/ \E c \in Clients, u \in Users, p \in Products : StartLike(c, u, p)
    \/ \E c \in Clients : LikeGetByID(c)
    \/ \E c \in Clients : LikeCountDocuments(c)
    \/ \E c \in Clients : LikeInsertOne(c)
    \/ \E u \in Users, p \in Products : UnlikeProduct(u, p)
    \/ \E c \in Clients : Return(c)

SpecLikes == Init /\ [][NextLikes]_vars

\* ------------------------------- GetRecommendations, step by step
\* The request reads the store at up to three moments: its own bulk reads,
\* the bulk reads of the nested GetSimilarUsers, and the read of
\* getPopularProducts.  The reads of one function are taken together; the
\* writes of other requests come between the functions.

\* The sets and event counts the request derives from its own bulk reads.
SnapshotLiked(u) == {p \in Products : query.allLikes[<<u, p>>] > 0}
SnapshotPurchaseEvents(u, p) == SumOver(query.allPurchases, {u} \X {p} \X Quantities)
SnapshotPurchased(u) == {p \in Products : SnapshotPurchaseEvents(u, p) > 0}

\* Purchase pass and like pass over allPurchases and allLikes as they were
\* read, for the neighbors GetSimilarUsers returned.
SnapshotScoredPurchases(o, p) ==
    IF p \in SnapshotPurchased(query.userID) THEN 0
    ELSE IF GetByID(p) # "ok" THEN 0
    ELSE SnapshotPurchaseEvents(o, p)

SnapshotScoredLikes(o, p) ==
    IF p \in SnapshotLiked(query.userID) \/ p \in SnapshotPurchased(query.userID) THEN 0
    ELSE IF GetByID(p) # "ok" THEN 0
    ELSE query.allLikes[<<o, p>>]

SnapshotScore(similarUsers, p) ==
    SumSeq([i \in 1..Len(similarUsers) |->
              SnapshotScoredPurchases(similarUsers[i].UserID, p)
                    * similarUsers[i].SimilarityScore * PurchaseBoost
                + SnapshotScoredLikes(similarUsers[i].UserID, p)
                    * similarUsers[i].SimilarityScore * LikeBoost],
           Len(similarUsers))

SnapshotCandidates(similarUsers) ==
    {[ProductID |-> p, Score |-> SnapshotScore(similarUsers, p),
      Reason |-> [text |-> "Users with similar interests liked this", count |-> 0]] :
        p \in {d \in Products : \E i \in 1..Len(similarUsers) :
                 SnapshotScoredPurchases(similarUsers[i].UserID, d) > 0
                     \/ SnapshotScoredLikes(similarUsers[i].UserID, d) > 0}}

\* History of the request in progress: the responses the request would give
\* if it ran as a whole on the store of this moment.
Observed ==
    IF query.phase \in {"idle", "done"} THEN query
    ELSE [query EXCEPT !.sequential =
            @ \cup RecommendationResults(query.userID, query.limit)]

\* GetRecommendations, lines 36-80: the clamp, the three bulk reads, the
\* target's sets, and the test for a target without events.
StartRecommendations(userID, limit) ==
    /\ query.phase = "idle" /\ resp = EmptyResp
    /\ query' = [phase |-> IF HasEvents(userID) THEN "GetSimilarUsers"
                           ELSE "getPopularProducts",
                 userID |-> userID, limit |-> limit,
                 allLikes |-> likes, allViews |-> views, allPurchases |-> purchases,
                 sequential |-> RecommendationResults(userID, limit)]
    /\ UNCHANGED <<likes, views, purchases, products, resp, budget, fault, calls>>

\* Lines 83-185: GetSimilarUsers reads the store again and returns the
\* neighbors; the two passes run over the events read at the start; the list
\* is sorted, cut and returned, or the request goes on to the fallback.
AggregateRecommendations ==
    /\ query.phase = "GetSimilarUsers"
    /\ \E similarUsers \in SimilarUsersResults(query.userID, NeighborLimit) :
         IF Len(similarUsers) = 0 \/ SnapshotCandidates(similarUsers) = {}
         THEN /\ query' = [Observed EXCEPT !.phase = "getPopularProducts"]
              /\ UNCHANGED resp
         ELSE /\ query' = [Observed EXCEPT !.phase = "done"]
              /\ resp' \in {CollaborativeResponse(query.userID, query.limit,
                                                  Truncate(s, ClampLimit(query.limit))) :
                              s \in SortedBy(SnapshotCandidates(similarUsers),
                                            ByScore(SnapshotCandidates(similarUsers)))}
    /\ UNCHANGED <<likes, views, purchases, products, budget, fault, calls>>

\* getPopularProducts reads the likes at the time of the fallback.
PopularRecommendations ==
    /\ query.phase = "getPopularProducts"
    /\ query' = [Observed EXCEPT !.phase = "done"]
    /\ resp' \in PopularResults(query.userID, query.limit, ClampLimit(query.limit))
    /\ UNCHANGED <<likes, views, purchases, products, budget, fault, calls>>

\* The handler writes the response and the request ends.
ReturnRecommendations ==
    /\ query.phase = "done"
    /\ query' = IdleQuery
    /\ resp' = EmptyResp
    /\ UNCHANGED <<likes, views, purchases, products, budget, fault, calls>>

\* The write requests of other clients, each taken as a whole, before or
\* while the recommendation request runs.
WriteView(userID, productID) ==
    /\ budget > 0 /\ GetByID(productID) = "ok"
    /\ views' = [views EXCEPT ![<<userID, productID>>] = @ + 1]
    /\ budget' = budget - 1
    /\ query' = Observed
    /\ UNCHANGED <<likes, purchases, products, resp, fault, calls>>

WriteLike(userID, productID) ==
    /\ budget > 0 /\ GetByID(productID) = "ok"
    /\ likes[<<userID, productID>>] = 0
    /\ likes' = [likes EXCEPT ![<<userID, productID>>] = @ + 1]
    /\ budget' = budget - 1
    /\ query' = Observed
    /\ UNCHANGED <<views, purchases, products, resp, fault, calls>>

WriteUnlike(userID, productID) ==
    /\ likes[<<userID, productID>>] > 0
    /\ likes' = [likes EXCEPT ![<<userID, productID>>] = @ - 1]
    /\ budget' = budget + 1
    /\ query' = Observed
    /\ UNCHANGED <<views, purchases, products, resp, fault, calls>>

WritePurchase(userID, productID, quantity) ==
    /\ budget > 0 /\ GetByID(productID) = "ok"
    /\ quantity > 0 /\ products[productID].stock >= quantity
    /\ purchases' = [purchases EXCEPT ![<<userID, productID, quantity>>] = @ + 1]
    /\ products' = [products EXCEPT ![productID].stock = @ - quantity]
    /\ budget' = budget - 1
    /\ query' = Observed
    /\ UNCHANGED <<likes, views, resp, fault, calls>>

\* The store of InitShared, with SnapshotWrites writes to come.
InitSnapshot ==
    /\ likes = [k \in Pairs |-> 0]
    /\ views = [k \in Pairs |-> IF k \in {<<1, 1>>, <<2, 1>>} THEN 1 ELSE 0]
    /\ purchases = [k \in PurchaseKeys |-> 0]
    /\ products = [p \in Products |-> [exists |-> TRUE, stock |-> InitStock]]
    /\ resp = EmptyResp
    /\ budget = SnapshotWrites
    /\ fault = NoFault
    /\ calls = [c \in Clients |-> IdleCall]
    /\ query = IdleQuery

NextSnapshot ==
    \/ \E u \in Targets, l \in Limits : StartRecommendations(u, l)
    \/ AggregateRecommendations
    \/ PopularRecommendations
    \/ ReturnRecommendations
    \/ \E u \in Users, p \in Products : WriteView(u, p)
    \/ \E u \in Users, p \in Products : WriteLike(u, p)
    \/ \E u \in Users, p \in Products : WriteUnlike(u, p)
    \/ \E u \in Users, p \in Products, q \in Quantities : WritePurchase(u, p, q)

SpecSnapshot == InitSnapshot /\ [][NextSnapshot]_vars

\* ================================================================ claims
IsSimilarCall(userID, limit) ==
    /\ resp.op = "GetSimilarUsers" /\ resp.userID = userID /\ resp.limit = limit
    /\ resp.err = <<>>
IsRecommendCall(userID, limit) ==
    /\ resp.op = "GetRecommendations" /\ resp.userID = userID /\ resp.limit = limit
    /\ resp.err = <<>>

\* The store of the scenario: t has one purchase of p1, u purchases of p1 and
\* p2, nobody else has any event, no likes or views, both products exist.
TwoPurchasers(t, u, p1, p2) ==
    /\ t # u /\ p1 # p2
    /\ \A k \in Pairs : likes[k] = 0 /\ views[k] = 0
    /\ PurchaseEvents(t, p1) = 1 /\ PurchasedProducts(t) = {p1}
    /\ PurchaseEvents(u, p1) = 1 /\ PurchaseEvents(u, p2) = 1
    /\ PurchasedProducts(u) = {p1, p2}
    /\ \A o \in Users \ {t, u} : ~HasEvents(o)
    /\ GetByID(p1) = "ok" /\ GetByID(p2) = "ok"

\* C1 as claimed: in the scenario GetSimilarUsers(t, 10) returns u with
\* purchase similarity 1.0 and score 0.5, and GetRecommendations(t, 10)
\* returns p2 with score 1.5 and not p1.
C1_AsClaimed ==
    \A t \in Targets, u \in Users, p1, p2 \in Products :
        TwoPurchasers(t, u, p1, p2) =>
            /\ IsSimilarCall(t, 10) =>
                 /\ Len(resp.similar) = 1
                 /\ resp.similar[1].UserID = u
                 /\ PurchaseSimilarity(t, u) = Denom
                 /\ 2 * resp.similar[1].SimilarityScore = SimScale
            /\ IsRecommendCall(t, 10) =>
                 /\ Len(resp.Recommendations) = 1
                 /\ resp.Recommendations[1].ProductID = p2
                 /\ 2 * resp.Recommendations[1].Score = 3 * RecScale

\* C1 amended: in the scenario the purchase sets are {p1} and {p1, p2}, so
\* the purchase similarity is 1/2 and GetSimilarUsers(t, 10) returns u with
\* score 0.25; GetRecommendations(t, 10) is collaborative and returns exactly
\* p2, with score 0.25 * 3.0 = 0.75, and not p1.
C1_ScenarioScores ==
    \A t \in Targets, u \in Users, p1, p2 \in Products :
        TwoPurchasers(t, u, p1, p2) =>
            /\ IsSimilarCall(t, 10) =>
                 /\ ~resp.panicked
                 /\ Len(resp.similar) = 1
                 /\ resp.similar[1].UserID = u
                 /\ 2 * PurchaseSimilarity(t, u) = Denom
                 /\ 4 * resp.similar[1].SimilarityScore = SimScale
            /\ IsRecommendCall(t, 10) =>
                 /\ resp.Algorithm = "collaborative_filtering"
                 /\ Len(resp.Recommendations) = 1
                 /\ resp.Recommendations[1].ProductID = p2
                 /\ 4 * resp.Recommendations[1].Score = 3 * RecScale

C1_Witness ==
    \E t \in Targets, u \in Users, p1, p2 \in Products :
        /\ TwoPurchasers(t, u, p1, p2)
        /\ IsRecommendCall(t, 10)
        /\ Len(resp.Recommendations) = 1

\* The limit a caller may rely on: 10 for a limit <= 0 or > 50.
EffectiveLimit(limit) == IF limit \in 1..50 THEN limit ELSE 10

NonIncreasingScores(list) ==
    \A i \in 1..(Len(list) - 1) : list[i].Score >= list[i + 1].Score

\* C2: for a user without any view, like or purchase event,
\* GetRecommendations returns algorithm "popularity_based", at most n items
\* (n the limit in effect), in non-increasing score order, and a non-empty
\* list starts with score exactly 1.0.
C2_ColdStartTopScoreOne ==
    (resp.op = "GetRecommendations" /\ resp.err = <<>> /\ ~HasEvents(resp.userID)) =>
        /\ resp.Algorithm = "popularity_based"
        /\ Len(resp.Recommendations) <= EffectiveLimit(resp.limit)
        /\ NonIncreasingScores(resp.Recommendations)
        /\ Len(resp.Recommendations) > 0 => resp.Recommendations[1].Score = RecScale

\* C3: the list GetRecommendations returns has at most the limit in effect
\* (10 for a limit <= 0 or > 50), on the collaborative and the popularity path.
C3_LengthWithinLimit ==
    resp.op = "GetRecommendations" =>
        Len(resp.Recommendations) <= EffectiveLimit(resp.limit)

\* A collaborative response that was cut: limit 1 with two scored candidates.
C3_Witness ==
    /\ resp.op = "GetRecommendations" /\ resp.limit = 1
    /\ resp.Algorithm = "collaborative_filtering"
    /\ Len(resp.Recommendations) = 1
    /\ \E sim \in SimilarUsersResults(resp.userID, NeighborLimit) :
         Cardinality(Candidates(resp.userID, sim)) > 1

\* C4: a collaborative response never lists a product the target has a
\* purchase event for.
C4_NoPurchasedProduct ==
    (resp.op = "GetRecommendations" /\ resp.Algorithm = "collaborative_filtering") =>
        \A i \in 1..Len(resp.Recommendations) :
            \A q \in Quantities :
                purchases[<<resp.userID, resp.Recommendations[i].ProductID, q>>] = 0

\* A collaborative response for a target that purchased a product one of its
\* neighbors purchased or liked too.
C4_Witness ==
    /\ resp.op = "GetRecommendations" /\ resp.Algorithm = "collaborative_filtering"
    /\ \E e \in Similarities(resp.userID), p \in PurchasedProducts(resp.userID) :
         /\ GetByID(p) = "ok"
         /\ PurchaseEvents(e.UserID, p) > 0 \/ likes[<<e.UserID, p>>] > 0

\* C5: every entry GetSimilarUsers returns has similarity score >= 0.1.
C5_ScoreAtLeastThreshold ==
    resp.op = "GetSimilarUsers" =>
        \A i \in 1..Len(resp.similar) : 10 * resp.similar[i].SimilarityScore >= SimScale

\* The products two users share in some interaction type, read off the store.
SharedProducts(a, b) ==
    {p \in Products :
        \/ likes[<<a, p>>] > 0 /\ likes[<<b, p>>] > 0
        \/ views[<<a, p>>] > 0 /\ views[<<b, p>>] > 0
        \/ (\E q \in Quantities : purchases[<<a, p, q>>] > 0)
             /\ (\E q \in Quantities : purchases[<<b, p, q>>] > 0)}

ReturnedUsers == {resp.similar[i].UserID : i \in 1..Len(resp.similar)}

\* A user that shares a product with the target and scores below 0.1 (one
\* common view out of two viewed products) is left out of a list with room.
C5_Witness ==
    /\ resp.op = "GetSimilarUsers" /\ resp.limit >= NumUsers
    /\ \E o \in Users \ {resp.userID} :
         /\ SharedProducts(resp.userID, o) # {}
         /\ o \notin ReturnedUsers

\* C6: a user that shares no product with the target in any interaction type
\* is never returned by GetSimilarUsers; when no other user shares a product
\* the result is the empty list.
C6_NoSharedProductNoEntry ==
    resp.op = "GetSimilarUsers" =>
        /\ \A o \in ReturnedUsers : SharedProducts(resp.userID, o) # {}
        /\ (\A o \in Users \ {resp.userID} : SharedProducts(resp.userID, o) = {})
              => resp.similar = <<>>

\* Target and another user both have events, share none, and the list with
\* room for everyone is empty.
C6_Witness ==
    /\ resp.op = "GetSimilarUsers" /\ resp.limit >= NumUsers
    /\ resp.similar = <<>>
    /\ HasEvents(resp.userID)
    /\ \E o \in Users \ {resp.userID} :
         /\ ViewedProducts(o) # {} /\ ViewedProducts(resp.userID) # {}
         /\ SharedProducts(resp.userID, o) = {}

\* C7: every similarity score GetSimilarUsers returns lies in [0, 1].
C7_ScoreInUnitInterval ==
    resp.op = "GetSimilarUsers" =>
        \A i \in 1..Len(resp.similar) :
            /\ resp.similar[i].SimilarityScore >= 0
            /\ resp.similar[i].SimilarityScore <= SimScale

\* A returned neighbor that has a repeated view or purchase event.
C7_Witness ==
    /\ resp.op = "GetSimilarUsers"
    /\ \E o \in ReturnedUsers, p \in Products :
         views[<<o, p>>] > 1 \/ PurchaseEvents(o, p) > 1

\* Two users with the same purchased, liked and viewed product sets.
IdenticalSets(a, b) ==
    /\ PurchasedProducts(a) = PurchasedProducts(b)
    /\ LikedProducts(a) = LikedProducts(b)
    /\ ViewedProducts(a) = ViewedProducts(b)

EntryOf(o) == CHOOSE i \in 1..Len(resp.similar) : resp.similar[i].UserID = o

\* C8 as claimed: a user with the same three product sets as the target (and
\* a shared product) is reported with similarity score exactly 1.0, also when
\* one or two of the sets are empty for both.
C8_AsClaimed ==
    (resp.op = "GetSimilarUsers" /\ resp.err = <<>> /\ resp.limit >= NumUsers) =>
        \A o \in Users \ {resp.userID} :
            (IdenticalSets(resp.userID, o) /\ SharedProducts(resp.userID, o) # {}) =>
                /\ o \in ReturnedUsers
                /\ resp.similar[EntryOf(o)].SimilarityScore = SimScale

\* The weight of an interaction type counts only when its set is non-empty.
WeightIfAny(S, w) == IF S # {} THEN w ELSE 0

\* C8 amended: such a user is reported with the sum of the weights of the
\* interaction types whose set is non-empty (0.50 purchases, 0.35 likes,
\* 0.15 views): exactly 1.0 only when all three sets are non-empty.
C8_IdenticalSetsScore ==
    (resp.op = "GetSimilarUsers" /\ resp.err = <<>> /\ resp.limit >= NumUsers) =>
        \A o \in Users \ {resp.userID} :
            (IdenticalSets(resp.userID, o) /\ SharedProducts(resp.userID, o) # {}) =>
                /\ o \in ReturnedUsers
                /\ 100 * resp.similar[EntryOf(o)].SimilarityScore =
                     SimScale * (WeightIfAny(PurchasedProducts(o), 50)
                                   + WeightIfAny(LikedProducts(o), 35)
                                   + WeightIfAny(ViewedProducts(o), 15))

\* A user identical to the target in three non-empty sets, reported with 1.0.
C8_Witness ==
    /\ resp.op = "GetSimilarUsers" /\ resp.limit >= NumUsers
    /\ \E o \in ReturnedUsers :
         /\ IdenticalSets(resp.userID, o)
         /\ PurchasedProducts(o) # {} /\ LikedProducts(o) # {} /\ ViewedProducts(o) # {}
         /\ resp.similar[EntryOf(o)].SimilarityScore = SimScale

\* The neighbors and products C9 is about: neighbor entry e of target t has
\* both purchased and liked p, which t has neither purchased nor liked.
BothSignals(t, e, p) ==
    /\ p \notin PurchasedProducts(t) /\ p \notin LikedProducts(t)
    /\ PurchaseEvents(e.UserID, p) > 0 /\ likes[<<e.UserID, p>>] > 0

\* C9 as claimed: what a neighbor's purchase events add to a product's score
\* is exactly twice what its like events add, for any number of purchase
\* events.
C9_AsClaimed ==
    (resp.op = "GetRecommendations" /\ resp.Algorithm = "collaborative_filtering") =>
        \A sim \in SimilarUsersResults(resp.userID, NeighborLimit) :
            \A i \in 1..Len(sim), p \in Products :
                BothSignals(resp.userID, sim[i], p) =>
                    PurchaseContribution(resp.userID, sim[i], p)
                        = 2 * LikeContribution(resp.userID, sim[i], p)

\* C9 amended: every purchase event adds 3.0 * S and the like event 1.5 * S,
\* so k purchase events of the neighbor add 2 * k times what its like adds;
\* the factor is 2 only for a single purchase event.
C9_PurchasesAddTwicePerEvent ==
    (resp.op = "GetRecommendations" /\ resp.Algorithm = "collaborative_filtering") =>
        \A sim \in SimilarUsersResults(resp.userID, NeighborLimit) :
            \A i \in 1..Len(sim), p \in Products :
                BothSignals(resp.userID, sim[i], p) =>
                    /\ PurchaseContribution(resp.userID, sim[i], p)
                         = 2 * PurchaseEvents(sim[i].UserID, p)
                             * LikeContribution(resp.userID, sim[i], p)
                    /\ GetByID(p) = "ok" =>
                         /\ 2 * SimScale * LikeContribution(resp.userID, sim[i], p)
                              = 3 * RecScale * sim[i].SimilarityScore
                         /\ Len(sim) = 1 /\ Len(resp.Recommendations) > 1 =>
                              \E j \in 1..Len(resp.Recommendations) :
                                  /\ resp.Recommendations[j].ProductID = p
                                  /\ resp.Recommendations[j].Score
                                       = (2 * PurchaseEvents(sim[i].UserID, p) + 1)
                                           * LikeContribution(resp.userID, sim[i], p)

\* A neighbor with two purchase events and a like on a returned product.
C9_Witness ==
    /\ resp.op = "GetRecommendations" /\ resp.Algorithm = "collaborative_filtering"
    /\ \E e \in Similarities(resp.userID), j \in 1..Len(resp.Recommendations) :
         /\ BothSignals(resp.userID, e, resp.Recommendations[j].ProductID)
         /\ PurchaseEvents(e.UserID, resp.Recommendations[j].ProductID) = 2

\* The candidate products and scores the aggregation can produce for target t.
CandidateScores(t) ==
    {{<<c.ProductID, c.Score>> : c \in Candidates(t, sim)} :
        sim \in SimilarUsersResults(t, NeighborLimit)}

\* Neighbor o's like on the missing product d is removed, nothing else changes.
MissingLikeRemoved(o, d) ==
    /\ GetByID(d) = "ErrNotFound"
    /\ likes[<<o, d>>] > 0
    /\ likes' = [likes EXCEPT ![<<o, d>>] = 0]
    /\ UNCHANGED <<views, purchases, products>>

EventsOnProductScore(t, sim, p) ==
    SumSeq([i \in 1..Len(sim) |->
              sim[i].SimilarityScore
                * ((IF p \in PurchasedProducts(t) THEN 0
                    ELSE PurchaseBoost * PurchaseEvents(sim[i].UserID, p))
                   + (IF p \in LikedProducts(t) \cup PurchasedProducts(t) THEN 0
                      ELSE LikeBoost * likes[<<sim[i].UserID, p>>]))],
           Len(sim))

QualifyingNeighbors(t) == {e.UserID : e \in Similarities(t)}

\* Some neighbor has an event on a catalog product that the passes score.
HasCandidate(t) ==
    \E o \in QualifyingNeighbors(t), p \in Products :
        /\ GetByID(p) = "ok"
        /\ \/ PurchaseEvents(o, p) > 0 /\ p \notin PurchasedProducts(t)
           \/ /\ likes[<<o, p>>] > 0
              /\ p \notin LikedProducts(t) \cup PurchasedProducts(t)

\* C11: a successful GetRecommendations response is tagged
\* "collaborative_filtering" exactly when the target has an event, has a
\* qualifying neighbor and some candidate is scored; every other successful
\* response is the popularity fallback; a collaborative response is never
\* empty.
C11_FallbackChain ==
    (resp.op = "GetRecommendations" /\ resp.err = <<>>) =>
        /\ resp.Algorithm \in {"collaborative_filtering", "popularity_based"}
        /\ resp.Algorithm = "collaborative_filtering"
             <=> /\ HasEvents(resp.userID)
                 /\ QualifyingNeighbors(resp.userID) # {}
                 /\ HasCandidate(resp.userID)
        /\ resp.Algorithm = "collaborative_filtering" => Len(resp.Recommendations) > 0
        /\ resp.Algorithm = "popularity_based" => resp.UserID = 0

\* The last link of the chain: a target with events and a qualifying neighbor
\* but no candidate gets the popularity fallback, here with a popular product.
C11_Witness ==
    /\ resp.op = "GetRecommendations" /\ resp.err = <<>> /\ fault = NoFault
    /\ HasEvents(resp.userID)
    /\ QualifyingNeighbors(resp.userID) # {}
    /\ resp.Algorithm = "popularity_based"
    /\ Len(resp.Recommendations) > 0

\* The failing bulk read is one the answered call makes: any read of the
\* called function itself, the reads of the nested GetSimilarUsers when the
\* target has events, the read of the popularity fallback when one of the
\* three fallback conditions holds.
FailedReadIsMade ==
    \/ resp.op = "GetSimilarUsers" /\ fault \in SimilarFaults
    \/ /\ resp.op = "GetRecommendations"
       /\ fault \in ReadFaults
       /\ \/ fault.in = "GetRecommendations"
          \/ fault.in = "GetSimilarUsers" /\ HasEvents(resp.userID)
          \/ /\ fault.in = "getPopularProducts"
             /\ ~(/\ HasEvents(resp.userID)
                  /\ QualifyingNeighbors(resp.userID) # {}
                  /\ HasCandidate(resp.userID))

\* C12: when a bulk read of the interaction store fails during a
\* GetRecommendations or GetSimilarUsers call (nested GetSimilarUsers and
\* popularity fallback included) the call returns an error; an error never
\* comes with a recommendation or neighbor list.
C12_FailedReadIsAnError ==
    resp.op \in {"GetRecommendations", "GetSimilarUsers"} =>
        /\ FailedReadIsMade => resp.err # <<>>
        /\ resp.err # <<>> =>
             /\ resp.similar = <<>>
             /\ resp.Recommendations = <<>>
             /\ resp.Algorithm = ""

\* GetRecommendations fails because a read of the nested GetSimilarUsers
\* failed, for a target with events in a store that has likes to recommend.
C12_Witness ==
    /\ resp.op = "GetRecommendations"
    /\ fault = [in |-> "GetSimilarUsers", call |-> "GetAllUserViews"]
    /\ resp.err = <<"get similar users", "get all views">>
    /\ HasEvents(resp.userID)
    /\ \E k \in Pairs : likes[k] > 0

\* C13: a catalog I/O failure met by GetRecommendations (GetByID failing with
\* an error other than not-found) is returned to the caller as an error.  With
\* a like in the store a lookup is made on every path: by the passes, or by
\* the popularity fallback for the most liked product.
C13_CatalogFailureIsFatal ==
    (/\ resp.op = "GetRecommendations"
     /\ fault = CatalogFault
     /\ \E k \in Pairs : likes[k] > 0)
        => resp.err # <<>>

C15_NoInteractedProduct ==
    resp.op = "GetRecommendations" =>
        \A i \in 1..Len(resp.Recommendations) :
            LET p == resp.Recommendations[i].ProductID
            IN /\ views[<<resp.userID, p>>] = 0
               /\ likes[<<resp.userID, p>>] = 0
               /\ \A q \in Quantities : purchases[<<resp.userID, p, q>>] = 0

\* The like events for product p across all users, read off the store.
GlobalLikes(p) == Cardinality({k \in Pairs : k[2] = p /\ likes[k] > 0})

ReturnedProducts == {resp.Recommendations[i].ProductID : i \in 1..Len(resp.Recommendations)}

\* C16: the popularity fallback returns products in non-increasing order of
\* their global like count, reports that count, leaves out no catalog product
\* with strictly more likes than a returned one, and returns the empty list
\* without error when the store has no like event.
C16_PopularByLikeCount ==
    resp.op = "GetRecommendations" =>
        /\ resp.Algorithm = "popularity_based" =>
             /\ \A i \in 1..Len(resp.Recommendations) :
                    /\ resp.Recommendations[i].Reason.count
                         = GlobalLikes(resp.Recommendations[i].ProductID)
                    /\ GlobalLikes(resp.Recommendations[i].ProductID) > 0
                    /\ \A p \in Products \ ReturnedProducts :
                           GetByID(p) = "ok" =>
                               GlobalLikes(p) <= GlobalLikes(resp.Recommendations[i].ProductID)
             /\ \A i \in 1..(Len(resp.Recommendations) - 1) :
                    GlobalLikes(resp.Recommendations[i].ProductID)
                        >= GlobalLikes(resp.Recommendations[i + 1].ProductID)
        /\ (/\ fault = NoFault
            /\ \A k \in Pairs : likes[k] = 0
            /\ resp.Algorithm # "collaborative_filtering")
             => /\ resp.err = <<>>
                /\ resp.Algorithm = "popularity_based"
                /\ resp.Recommendations = <<>>

\* A fallback cut to one item while two catalog products have likes, the
\* returned one having more.
C16_Witness ==
    /\ resp.op = "GetRecommendations" /\ resp.Algorithm = "popularity_based"
    /\ Len(resp.Recommendations) = 1
    /\ \E p \in Products \ ReturnedProducts :
         /\ GetByID(p) = "ok"
         /\ GlobalLikes(p) > 0
         /\ GlobalLikes(p) < GlobalLikes(resp.Recommendations[1].ProductID)

\* The score list holds for user o, or -1 when o is not in it.
ScoreIn(list, o) ==
    IF \E i \in 1..Len(list) : list[i].UserID = o
    THEN (CHOOSE e \in {list[i] : i \in 1..Len(list)} : e.UserID = o).SimilarityScore
    ELSE -1

\* C17: with a limit that cuts nothing, B is in GetSimilarUsers(A) exactly
\* when A is in GetSimilarUsers(B), and then with the same score: for every
\* pair of users on every store (seen between two requests), and for the list
\* a call has returned.
C17_Symmetric ==
    /\ (resp = EmptyResp /\ fault = NoFault) =>
         \A a, b \in Users :
           a # b =>
             \A la \in SimilarUsersResults(a, NumUsers), lb \in SimilarUsersResults(b, NumUsers) :
                 ScoreIn(la, b) = ScoreIn(lb, a)
    /\ (resp.op = "GetSimilarUsers" /\ resp.err = <<>> /\ resp.limit >= NumUsers) =>
         \A b \in Users \ {resp.userID} :
             \A lb \in SimilarUsersResults(b, resp.limit) :
                 ScoreIn(resp.similar, b) = ScoreIn(lb, resp.userID)

\* A returned user whose sets differ in size from the target's in every
\* interaction type they share, so that a one-sided union would show.
C17_Witness ==
    /\ resp.op = "GetSimilarUsers" /\ resp.limit >= NumUsers
    /\ \E b \in ReturnedUsers :
         /\ Cardinality(ViewedProducts(b)) > Cardinality(ViewedProducts(resp.userID))
         /\ ViewedProducts(resp.userID) # {}
         /\ ScoreIn(resp.similar, b) > 0
         /\ \A lb \in SimilarUsersResults(b, resp.limit) :
                ScoreIn(lb, resp.userID) = ScoreIn(resp.similar, b)

\* C18: a step in which GetRecommendations or GetSimilarUsers answers, on the
\* collaborative, the fallback or an error path, leaves the view, like and
\* purchase collections and the catalog as they were.
C18_EngineOnlyReads ==
    [][(resp = EmptyResp /\ resp' # EmptyResp) =>
          /\ resp'.op \in {"GetRecommendations", "GetSimilarUsers"}
          /\ likes' = likes /\ views' = views
          /\ purchases' = purchases /\ products' = products]_vars

\* A collaborative answer over a store with events of the three types and a
\* catalog a purchase has changed.
C18_Witness ==
    /\ resp.op = "GetRecommendations" /\ resp.Algorithm = "collaborative_filtering"
    /\ \E k \in Pairs : likes[k] > 0
    /\ \E k \in Pairs : views[k] > 0
    /\ \E p \in Products : products[p].stock < InitStock

\* The distinct products a user has events for, read off the store.
ViewedSet(u) == {p \in Products : views[<<u, p>>] > 0}
LikedSet(u) == {p \in Products : likes[<<u, p>>] > 0}
PurchasedSet(u) == {p \in Products : \E q \in Quantities : purchases[<<u, p, q>>] > 0}

\* 100 * Denom * (0.50 * Jp + 0.35 * Jl + 0.15 * Jv), where the index of the
\* sets A, B is |A n B| / |A u B|, written w * |A n B| * Denom / |A u B|: the
\* division is exact because Denom is a multiple of every possible size.
WeightedIndex(A, B, w) ==
    IF A \cup B = {} THEN 0
    ELSE (w * Cardinality(A \cap B) * Denom) \div Cardinality(A \cup B)

FormulaScore(t, u) ==
    WeightedIndex(PurchasedSet(t), PurchasedSet(u), 50)
        + WeightedIndex(LikedSet(t), LikedSet(u), 35)
        + WeightedIndex(ViewedSet(t), ViewedSet(u), 15)

\* C19: the score GetSimilarUsers reports for a user that shares a product
\* with the target is 0.50 * Jp + 0.35 * Jl + 0.15 * Jv over the sets of
\* distinct products, an empty union giving 0; a sharing user that is not
\* reported has a formula value of at most the threshold 0.1.
C19_WeightedJaccard ==
    (resp.op = "GetSimilarUsers" /\ resp.err = <<>> /\ resp.limit >= NumUsers) =>
        \A u \in Users \ {resp.userID} :
            /\ \A A \in {PurchasedSet(u), LikedSet(u), ViewedSet(u)} :
                   Denom % (IF A = {} THEN 1 ELSE Cardinality(A)) = 0
            /\ SharedProducts(resp.userID, u) # {} =>
                   IF u \in ReturnedUsers
                   THEN ScoreIn(resp.similar, u) = FormulaScore(resp.userID, u)
                   ELSE FormulaScore(resp.userID, u) <= MinSimilarity * Denom

\* A reported user whose purchase index is 1/2 and whose target has a
\* repeated event.
C19_Witness ==
    /\ resp.op = "GetSimilarUsers" /\ resp.limit >= NumUsers
    /\ \E u \in ReturnedUsers :
         /\ Cardinality(PurchasedSet(resp.userID) \cap PurchasedSet(u)) = 1
         /\ Cardinality(PurchasedSet(resp.userID) \cup PurchasedSet(u)) = 2
         /\ ScoreIn(resp.similar, u) = FormulaScore(resp.userID, u)
         /\ \E p \in Products : views[<<resp.userID, p>>] > 1

\* RecScale * (3.0 * score per purchase event of n on p, unless t purchased
\* p, plus 1.5 * score per like event of n on p, unless t liked or purchased
\* p), for one neighbor entry n.
NeighborAdds(t, n, p) ==
    (IF p \in PurchasedSet(t) THEN 0
     ELSE 6 * n.SimilarityScore
            * SumOver(purchases, {n.UserID} \X {p} \X Quantities))
      + (IF p \in LikedSet(t) \cup PurchasedSet(t) THEN 0
         ELSE 3 * n.SimilarityScore * likes[<<n.UserID, p>>])

\* The sum of NeighborAdds over the entries of a neighbor list.
NeighborsAdd(t, sim, p) ==
    LET entries == {sim[i] : i \in 1..Len(sim)}
    IN SumOver([n \in entries |-> NeighborAdds(t, n, p)], entries)

\* C20: on the collaborative path the score of each returned product is the
\* sum over the neighbors GetSimilarUsers(target, 10) returns of 3.0 * score
\* per purchase event and 1.5 * score per like event, under the two skip
\* rules; a returned product is in the catalog and has a contribution, and a
\* list that was not cut holds every such product.
C20_CollaborativeScore ==
    (resp.op = "GetRecommendations" /\ resp.Algorithm = "collaborative_filtering") =>
        \E sim \in SimilarUsersResults(resp.userID, 10) :
            /\ \A j \in 1..Len(resp.Recommendations) :
                   LET p == resp.Recommendations[j].ProductID
                   IN /\ resp.Recommendations[j].Score = NeighborsAdd(resp.userID, sim, p)
                      /\ NeighborsAdd(resp.userID, sim, p) > 0
                      /\ GetByID(p) = "ok"
            /\ Len(resp.Recommendations) < EffectiveLimit(resp.limit) =>
                   \A p \in Products :
                       (GetByID(p) = "ok" /\ NeighborsAdd(resp.userID, sim, p) > 0)
                           => p \in ReturnedProducts

\* A returned product that one neighbor liked and another neighbor purchased.
C20_Witness ==
    /\ resp.op = "GetRecommendations" /\ resp.Algorithm = "collaborative_filtering"
    /\ \E n1, n2 \in QualifyingNeighbors(resp.userID), p \in ReturnedProducts :
         /\ n1 # n2
         /\ likes[<<n1, p>>] > 0
         /\ \E q \in Quantities : purchases[<<n2, p, q>>] > 0

\* A user the threshold admits, by the formula on the store.
Qualifies(t, u) ==
    /\ u # t
    /\ SharedProducts(t, u) # {}
    /\ FormulaScore(t, u) > MinSimilarity * Denom

\* C21: the list of GetSimilarUsers(target, limit), limit >= 1, is in
\* non-increasing score order, has at most limit entries and leaves out no
\* qualifying user with a strictly higher score than a returned one; the
\* collaborative list of GetRecommendations has the same properties for the
\* candidate scores and the clamped limit.
C21_SortedTopSelection ==
    /\ (resp.op = "GetSimilarUsers" /\ resp.err = <<>> /\ resp.limit >= 1) =>
         /\ \A i \in 1..(Len(resp.similar) - 1) :
                resp.similar[i].SimilarityScore >= resp.similar[i + 1].SimilarityScore
         /\ Len(resp.similar) <= resp.limit
         /\ \A u \in Users \ ReturnedUsers, i \in 1..Len(resp.similar) :
                Qualifies(resp.userID, u) =>
                    FormulaScore(resp.userID, u) <= resp.similar[i].SimilarityScore
         /\ Len(resp.similar) < resp.limit =>
                \A u \in Users : Qualifies(resp.userID, u) => u \in ReturnedUsers
    /\ (resp.op = "GetRecommendations" /\ resp.Algorithm = "collaborative_filtering") =>
         /\ NonIncreasingScores(resp.Recommendations)
         /\ Len(resp.Recommendations) <= EffectiveLimit(resp.limit)
         /\ \E sim \in SimilarUsersResults(resp.userID, 10) :
                \A p \in Products \ ReturnedProducts, j \in 1..Len(resp.Recommendations) :
                    GetByID(p) = "ok" =>
                        NeighborsAdd(resp.userID, sim, p) <= resp.Recommendations[j].Score

\* Limit 1 with two qualifying users of different scores: the higher one is
\* returned.
C21_Witness ==
    /\ resp.op = "GetSimilarUsers" /\ resp.limit = 1
    /\ Len(resp.similar) = 1
    /\ \E u \in Users \ ReturnedUsers :
         /\ Qualifies(resp.userID, u)
         /\ FormulaScore(resp.userID, u) < resp.similar[1].SimilarityScore

\* The (user, score) pairs of the neighbor lists GetSimilarUsers(t, 10) can
\* return.
NeighborScores(t) ==
    {{<<sim[i].UserID, sim[i].SimilarityScore>> : i \in 1..Len(sim)} :
        sim \in SimilarUsersResults(t, 10)}

\* A step that only adds a view event.
ViewAdded ==
    /\ views' # views
    /\ UNCHANGED <<likes, purchases, products>>

\* C22: a collaborative list holds only products some qualifying neighbor has
\* a like or purchase event for, and a step that adds a view event without
\* changing the neighbors' similarity scores changes no candidate score.
C22_ViewsDoNotScore ==
    /\ [](resp.op = "GetRecommendations" /\ resp.Algorithm = "collaborative_filtering" =>
            \A p \in ReturnedProducts :
                \E n \in QualifyingNeighbors(resp.userID) :
                    \/ likes[<<n, p>>] > 0
                    \/ \E q \in Quantities : purchases[<<n, p, q>>] > 0)
    /\ [][\A t \in Targets :
             (ViewAdded /\ NeighborScores(t)' = NeighborScores(t))
                 => CandidateScores(t)' = CandidateScores(t)]_vars

\* A collaborative answer that leaves out a catalog product the neighbors have
\* viewed and nobody has liked or purchased.
C22_Witness ==
    /\ resp.op = "GetRecommendations" /\ resp.Algorithm = "collaborative_filtering"
    /\ \E n \in QualifyingNeighbors(resp.userID), p \in Products \ ReturnedProducts :
         /\ views[<<n, p>>] > 0
         /\ GetByID(p) = "ok"
         /\ GlobalLikes(p) = 0
         /\ \A u \in Users : p \notin PurchasedSet(u)

\* The qualifying users with a strictly higher score than u.
RankedAbove(t, u) ==
    {o \in StoreUsers : Qualifies(t, o) /\ FormulaScore(t, o) > FormulaScore(t, u)}

\* u is among the 10 highest-scoring qualifying users: fewer than 10 score
\* strictly higher.
AmongTopNeighbors(t, u) ==
    Qualifies(t, u) /\ Cardinality(RankedAbove(t, u)) < NeighborLimit

\* u has a like or a purchase event for p.
Supports(u, p) == likes[<<u, p>>] > 0 \/ p \in PurchasedSet(u)

\* p is liked or purchased by qualifying users, all of them ranked strictly
\* below the 10 highest scores.
OnlyBelowTop(t, p) ==
    /\ \E u \in StoreUsers : Qualifies(t, u) /\ Supports(u, p)
    /\ \A u \in StoreUsers :
           (Qualifies(t, u) /\ Supports(u, p)) => ~AmongTopNeighbors(t, u)

\* C23: whatever the outer limit, every product of a collaborative list has a
\* like or purchase event from one of the 10 highest-scoring qualifying
\* neighbors, and a product liked or purchased only by qualifying users
\* ranked strictly below the 10 highest scores is not in the list.
C23_TenNeighbors ==
    (resp.op = "GetRecommendations" /\ resp.Algorithm = "collaborative_filtering") =>
        /\ \A p \in ReturnedProducts :
               \E u \in StoreUsers : AmongTopNeighbors(resp.userID, u) /\ Supports(u, p)
        /\ \A p \in Products : OnlyBelowTop(resp.userID, p) => p \notin ReturnedProducts

\* More than 10 qualifying users, a collaborative list shorter than the outer
\* limit, and a product in the catalog that only an 11th-ranked user
\* purchased and that the target has not: it is not in the list.
C23_Witness ==
    /\ resp.op = "GetRecommendations" /\ resp.Algorithm = "collaborative_filtering"
    /\ Cardinality({u \in StoreUsers : Qualifies(resp.userID, u)}) > NeighborLimit
    /\ 0 < Len(resp.Recommendations)
    /\ Len(resp.Recommendations) < EffectiveLimit(resp.limit)
    /\ \E p \in Products \ ReturnedProducts :
           /\ OnlyBelowTop(resp.userID, p)
           /\ GetByID(p) = "ok"
           /\ p \notin PurchasedSet(resp.userID)

\* C24: the user_id field of every successful GetRecommendations response is
\* the user_id argument of the call.
C24_ResponseUserID ==
    (resp.op = "GetRecommendations" /\ resp.err = <<>>) => resp.UserID = resp.userID

\* C26: the response of a GetRecommendations request that ran beside write
\* requests is a response the sequential pipeline gives on the store of some
\* moment of the request.
C26_SingleSnapshot ==
    query.phase = "done" => resp \in query.sequential

\* The liked products that are still in the catalog.
ExistingLikedProducts == {p \in Products : GlobalLikes(p) > 0 /\ products[p].exists}

\* The largest like count among the returned items.
MaxReturnedLikes ==
    CHOOSE m \in {GlobalLikes(p) : p \in ReturnedProducts} :
        \A p \in ReturnedProducts : GlobalLikes(p) <= m

\* C25: the popularity fallback returns exactly min(limit, k) items, k the
\* number of liked products still in the catalog, and every returned score is
\* the item's like count divided by the largest like count among the returned
\* items.
C25_PopularFillsLimit ==
    (resp.op = "GetRecommendations" /\ resp.Algorithm = "popularity_based"
        /\ fault = NoFault) =>
        /\ Len(resp.Recommendations) =
             (IF Cardinality(ExistingLikedProducts) < EffectiveLimit(resp.limit)
              THEN Cardinality(ExistingLikedProducts)
              ELSE EffectiveLimit(resp.limit))
        /\ \A j \in 1..Len(resp.Recommendations) :
               resp.Recommendations[j].Score * MaxReturnedLikes
                   = GlobalLikes(resp.Recommendations[j].ProductID) * RecScale

\* The (user, score) pairs of a neighbor list, the (product, score) pairs of a
\* recommendation list.
UserScorePairs(list) == {<<list[i].UserID, list[i].SimilarityScore>> : i \in 1..Len(list)}
ProductScorePairs(list) == {<<list[i].ProductID, list[i].Score>> : i \in 1..Len(list)}

\* C27: on an unchanged store and catalog every invocation with the same
\* arguments returns the same set of pairs as the one that was answered: the
\* same (user, score) pairs for GetSimilarUsers, the same (product, score)
\* pairs for GetRecommendations, ties at the truncation boundary included.
C27_SameResultSet ==
    /\ (resp.op = "GetSimilarUsers" /\ resp.err = <<>> /\ ~resp.panicked) =>
         \A other \in SimilarUsersResponses(resp.userID, resp.limit) :
             UserScorePairs(other.similar) = UserScorePairs(resp.similar)
    /\ (resp.op = "GetRecommendations" /\ resp.err = <<>>) =>
         \A other \in RecommendationResults(resp.userID, resp.limit) :
             ProductScorePairs(other.Recommendations)
                 = ProductScorePairs(resp.Recommendations)

\* The quantity of product p in the recorded purchase events.
PurchasedQuantity(p) ==
    SumOver([k \in Users \X {p} \X Quantities |-> k[3] * purchases[k]],
            Users \X {p} \X Quantities)

\* A purchase request has recorded its event and not yet updated the stock.
UpdatePending(p) ==
    \E c \in Clients : /\ calls[c].op = "PurchaseProduct"
                       /\ calls[c].productID = p
                       /\ calls[c].pc = "Update"

\* C28: under every interleaving of PurchaseProduct requests the stock of a
\* product is never negative, the recorded purchases never exceed the initial
\* stock, and once every recorded purchase has updated the stock, the stock
\* is the initial stock minus the recorded quantities.
C28_StockMatchesPurchases ==
    \A p \in Products :
        /\ products[p].stock >= 0
        /\ PurchasedQuantity(p) <= InitStock
        /\ ~UpdatePending(p) => products[p].stock = InitStock - PurchasedQuantity(p)

\* C29: a PurchaseProduct request that returned an error has not added a
\* purchase event.
C29_AllOrNothing ==
    \A c \in Clients :
        (calls[c].op = "PurchaseProduct" /\ calls[c].pc = "done"
            /\ calls[c].result # "ok") => ~calls[c].inserted

\* C30: the like collection holds at most one like per (user, product) pair,
\* and a LikeProduct request for a product of the catalog returns success,
\* whether or not the pair was liked before and whatever runs beside it.
C30_OneLikeAndSuccess ==
    /\ \A k \in Pairs : likes[k] <= 1
    /\ \A p \in Products : LikeCount(p) = Cardinality({u \in Users : p \in LikedProducts(u)})
    /\ \A c \in Clients :
           (calls[c].op = "LikeProduct" /\ calls[c].pc = "done"
               /\ GetByID(calls[c].productID) = "ok") => calls[c].result = "ok"

====
